---- MODULE Spec2Model ----
(***************************************************************************)
(* A model of pdf-tools: exhibitgen.py (exhibit labels, slipsheet          *)
(* generation and assembly, the command-line orchestrator) and             *)
(* double-combine.py (the double-sided merge).                             *)
(*                                                                         *)
(* Python strings are sequences of one-character strings, so that          *)
(* slicing, concatenation, case mapping and ord() are what the code does.  *)
(* A Python value that is "a str, an int or None" is a record              *)
(* [kind, s, n]; a raised exception is a record whose kind is the          *)
(* exception's name.                                                       *)
(***************************************************************************)
EXTENDS Integers, Sequences, FiniteSets, TLC

VARIABLES
    fn, arg, ret,                                  \* a call of one pure function
    argv, input_files, pdfWriter, out_file, pc_c,  \* double-combine.py combine()
    fs, CLEANLIST, scratch, asmWriter, call, fs0, ncalls, pc_a,  \* add_slipsheet
    args, label, use_label, idx, calls, exit_status, pc_m        \* main()

pureVars    == <<fn, arg, ret>>
combineVars == <<argv, input_files, pdfWriter, out_file, pc_c>>
asmVars     == <<fs, CLEANLIST, scratch, asmWriter, call, fs0, ncalls, pc_a>>
mainVars    == <<args, label, use_label, idx, calls, exit_status, pc_m>>
vars        == <<pureVars, combineVars, asmVars, mainVars>>

(***************************************************************************)
(* Bounds of the model.                                                    *)
(***************************************************************************)
MaxOrdinal  == 100000   \* ordinals 1..MaxOrdinal go through the round trip
MaxLabelLen == 2        \* letters in an alphabetic label given to _next_label
MaxNumLabel == 120      \* numeric labels 0..MaxNumLabel given to _next_label
MaxTokenLen == 2        \* characters in a token given to _valid_label
MaxTailLen  == 3        \* characters after the prefix marker of a filename
MaxFiles    == 3        \* inputs of the double-sided merge
MaxPages    == 5        \* pages of one input of the merge
MaxSrcPages == 2        \* pages of a source document given to add_slipsheet
MaxCalls    == 2        \* successive calls of add_slipsheet in one process
MaxCount    == 3        \* --count
MaxInfiles  == 2        \* positional infile arguments

(***************************************************************************)
(* Characters and strings.                                                 *)
(***************************************************************************)
ascii_uppercase == <<"A","B","C","D","E","F","G","H","I","J","K","L","M",
                     "N","O","P","Q","R","S","T","U","V","W","X","Y","Z">>
ascii_lowercase == <<"a","b","c","d","e","f","g","h","i","j","k","l","m",
                     "n","o","p","q","r","s","t","u","v","w","x","y","z">>
digits          == <<"0","1","2","3","4","5","6","7","8","9">>
\* string.ascii_letters: the lower-case letters, then the upper-case ones.
ascii_letters   == ascii_lowercase \o ascii_uppercase

Range(s) == {s[i] : i \in 1..Len(s)}
IndexOf(c, s) == CHOOSE i \in 1..Len(s) : s[i] = c

IsUpperChar(c) == c \in Range(ascii_uppercase)
IsLowerChar(c) == c \in Range(ascii_lowercase)
IsLetterChar(c) == IsUpperChar(c) \/ IsLowerChar(c)
IsDigitChar(c) == c \in Range(digits)

\* ord() on the characters the model uses (their ASCII code points).
Ord(c) ==
    IF IsUpperChar(c) THEN 64 + IndexOf(c, ascii_uppercase)
    ELSE IF IsLowerChar(c) THEN 96 + IndexOf(c, ascii_lowercase)
    ELSE IF IsDigitChar(c) THEN 47 + IndexOf(c, digits)
    ELSE IF c = "_" THEN 95
    ELSE IF c = "." THEN 46
    ELSE IF c = "-" THEN 45
    ELSE IF c = "/" THEN 47
    ELSE 32

\* chr() on the code points of the upper-case letters.
Chr(n) == ascii_uppercase[n - 64]

UpperChar(c) == IF IsLowerChar(c) THEN ascii_uppercase[IndexOf(c, ascii_lowercase)] ELSE c
LowerChar(c) == IF IsUpperChar(c) THEN ascii_lowercase[IndexOf(c, ascii_uppercase)] ELSE c
\* str.upper(), str.lower()
Upper(s) == [i \in 1..Len(s) |-> UpperChar(s[i])]
Lower(s) == [i \in 1..Len(s) |-> LowerChar(s[i])]
\* str.islower(): some cased character, and no upper-case one.
IsLower(s) == (\E i \in 1..Len(s) : IsLowerChar(s[i])) /\ (\A i \in 1..Len(s) : ~IsUpperChar(s[i]))
\* s[::-1]
Reversed(s) == [i \in 1..Len(s) |-> s[Len(s) + 1 - i]]
\* s[:k] and s[k:], which clip to the string's length.
Take(s, k) == SubSeq(s, 1, IF k < Len(s) THEN k ELSE Len(s))
Drop(s, k) == SubSeq(s, (IF k < Len(s) THEN k ELSE Len(s)) + 1, Len(s))
\* needle in haystack, for strings: the substring test.
Contains(haystack, needle) ==
    \E i \in 0..(Len(haystack) - Len(needle)) :
        SubSeq(haystack, i + 1, i + Len(needle)) = needle

\* All strings over an alphabet with lo..hi characters.
StringsOver(alphabet, lo, hi) == UNION {[1..k -> alphabet] : k \in lo..hi}

(***************************************************************************)
(* Python values.                                                          *)
(***************************************************************************)
StrV(s)   == [kind |-> "str", s |-> s, n |-> 0]
IntV(n)   == [kind |-> "int", s |-> <<>>, n |-> n]
BoolV(b)  == [kind |-> "bool", s |-> <<>>, n |-> IF b THEN 1 ELSE 0]
None      == [kind |-> "None", s |-> <<>>, n |-> 0]
Raise(e)  == [kind |-> e, s |-> <<>>, n |-> 0]
NoCall    == [kind |-> "nocall", s |-> <<>>, n |-> 0]
IsRaise(v) == v.kind \in {"ValueError", "TypeError", "IOError"}

\* The decimal value of a string of digits.
RECURSIVE DigitsValue(_)
DigitsValue(s) ==
    IF s = <<>> THEN 0
    ELSE 10 * DigitsValue(SubSeq(s, 1, Len(s) - 1)) + (IndexOf(s[Len(s)], digits) - 1)

\* int(x): an int is itself, a non-empty run of digits is its value, any other
\* string is a ValueError and None a TypeError. (The tokens of the model hold
\* no sign, blank or underscore.)
Int_(v) ==
    IF v.kind = "int" THEN v
    ELSE IF v.kind = "str"
         THEN IF v.s # <<>> /\ \A i \in 1..Len(v.s) : IsDigitChar(v.s[i])
              THEN IntV(DigitsValue(v.s))
              ELSE Raise("ValueError")
    ELSE Raise("TypeError")

\* str(n) for n >= 0.
RECURSIVE Str_(_)
Str_(n) == IF n < 10 THEN <<digits[n + 1]>> ELSE Str_(n \div 10) \o <<digits[(n % 10) + 1]>>

\* The text an f-string puts for a value.
Format(v) ==
    IF v.kind = "int" THEN Str_(v.n)
    ELSE IF v.kind = "str" THEN v.s
    ELSE <<"N","o","n","e">>

(***************************************************************************)
(* The label algebra.                                                      *)
(***************************************************************************)
A_UPPERCASE   == Ord("A")
ALPHABET_SIZE == 26

\* A plausible slip: the digits of plain base 26, without the "- 1".
RECURSIVE Decompose_naive(_)
Decompose_naive(number) ==
    IF number = 0 THEN <<>>
    ELSE <<number % ALPHABET_SIZE>> \o Decompose_naive(number \div ALPHABET_SIZE)

\* _decompose: the digits, least significant first (number >= 0; the loop
\* does not end on a negative number).
RECURSIVE Decompose(_)
Decompose(number) ==
    IF number = 0 THEN <<>>
    ELSE <<(number - 1) % ALPHABET_SIZE>> \o Decompose((number - 1) \div ALPHABET_SIZE)

\* sum of (ord(letter) - A_UPPERCASE + 1) * ALPHABET_SIZE ** i over the
\* reversed, upper-cased label.
RECURSIVE SumDigits(_, _)
SumDigits(rev, i) ==
    IF i > Len(rev) THEN 0
    ELSE (Ord(rev[i]) - A_UPPERCASE + 1) * ALPHABET_SIZE ^ (i - 1) + SumDigits(rev, i + 1)

base_alphabet_to_10(ltr_label) == SumDigits(Reversed(Upper(ltr_label)), 1)

base_10_to_alphabet(number) ==
    LET parts == Decompose(number)
    IN  Reversed([i \in 1..Len(parts) |-> Chr(A_UPPERCASE + parts[i])])

\* A plausible slip: the case of the input is not carried over.
next_label_nocase(lbl) ==
    LET k == Int_(lbl)
    IN  IF k.kind = "int" THEN IntV(k.n + 1)
        ELSE IF k.kind = "TypeError" THEN k
        ELSE StrV(base_10_to_alphabet(base_alphabet_to_10(lbl.s) + 1))

\* _next_label: int(label) + 1, or on ValueError the next alphabetic label,
\* lower-cased when the label is lower case. A TypeError is not caught.
next_label(lbl) ==
    LET k == Int_(lbl)
    IN  IF k.kind = "int" THEN IntV(k.n + 1)
        ELSE IF k.kind = "TypeError" THEN k
        ELSE LET out == base_10_to_alphabet(base_alphabet_to_10(lbl.s) + 1)
             IN  IF IsLower(lbl.s) THEN StrV(Lower(out)) ELSE StrV(out)

\* _valid_label: the token is a substring of string.ascii_letters, or int()
\* accepts it.
valid_label(input) ==
    IF ~Contains(ascii_letters, input)
    THEN Int_(StrV(input)).kind = "int"
    ELSE TRUE

(***************************************************************************)
(* Filename label inference.                                               *)
(***************************************************************************)
\* \W of the pattern: anything but a letter, a digit or the underscore.
IsWordChar(c) == IsLetterChar(c) \/ IsDigitChar(c) \/ c = "_"
IsSpaceChar(c) == c = " "

\* str.strip()
RECURSIVE LStrip(_)
LStrip(s) == IF s # <<>> /\ IsSpaceChar(s[1]) THEN LStrip(Tail(s)) ELSE s
Strip(s) == Reversed(LStrip(Reversed(LStrip(s))))

\* The longest run of digits at the start of s.
RECURSIVE DigitRun(_)
DigitRun(s) == IF s # <<>> /\ IsDigitChar(s[1]) THEN <<s[1]>> \o DigitRun(Tail(s)) ELSE <<>>

\* label_re.match(s), then group(1) if it is set, else group(2); None when
\* the pattern does not match at the start of s.
label_re_match(s) ==
    IF Len(s) >= 2 /\ IsLetterChar(s[1]) /\ ~IsWordChar(s[2]) THEN StrV(<<s[1]>>)
    ELSE IF DigitRun(s) # <<>> THEN StrV(DigitRun(s))
    ELSE None

M_exhibit == <<"e","x","h","i","b","i","t">>
M_Exh     == <<"E","x","h">>
M_ex      == <<"e","x">>
Seps      == {".", "_", " "}

\* label_from_filename
label_from_filename(filename) ==
    LET remainder ==
            IF Lower(Take(filename, 8)) \in {M_exhibit \o <<c>> : c \in Seps}
            THEN Drop(filename, 8)
            ELSE IF Lower(Take(filename, 7)) = M_exhibit
            THEN Drop(filename, 7)
            ELSE IF Take(filename, 4) \in {M_Exh \o <<c>> : c \in Seps}
            THEN Drop(filename, 4)
            ELSE IF Lower(Take(filename, 3)) \in {M_ex \o <<c>> : c \in Seps}
            THEN Drop(filename, 3)
            ELSE filename
        result == label_re_match(Strip(remainder))
    IN  IF result # None THEN result ELSE Raise("ValueError")

(***************************************************************************)
(* Values the variables of an operation hold while another one runs.       *)
(***************************************************************************)
Absent     == [state |-> "absent", pages |-> <<>>]
NoArgs     == [infile |-> <<>>, outfile |-> <<>>, label |-> None, exh_fn |-> "none"]
NoCmdLine  == [label |-> None, orientation |-> "none", count |-> 0, infile |-> <<>>]
NewWriter  == [pages |-> <<>>, bookmarks |-> <<>>]

PureIdle    == fn = "none" /\ arg = NoCall /\ ret = NoCall
CombineIdle ==
    /\ argv = <<>> /\ input_files = <<>> /\ pdfWriter = NewWriter
    /\ out_file = [name |-> 0, pages |-> <<>>] /\ pc_c = "idle"
AsmIdle ==
    /\ fs = <<>> /\ CLEANLIST = <<>> /\ scratch = Absent /\ asmWriter = <<>>
    /\ call = NoArgs /\ fs0 = <<>> /\ ncalls = 0 /\ pc_a = "idle"
MainIdle ==
    /\ args = NoCmdLine /\ label = None /\ use_label = None /\ idx = 0
    /\ calls = <<>> /\ exit_status = "none" /\ pc_m = "idle"

(***************************************************************************)
(* The pure functions, each applied to an input drawn from a bounded set.  *)
(***************************************************************************)
Letters == Range(ascii_letters)

Ordinals == {IntV(n) : n \in 1..MaxOrdinal}

LabelInputs ==
    {StrV(s) : s \in StringsOver(Letters, 1, MaxLabelLen)}
    \cup {StrV(Str_(k)) : k \in 0..MaxNumLabel}
    \cup {IntV(k) : k \in 0..MaxNumLabel}

TokenInputs ==
    {StrV(s) : s \in StringsOver(Letters \cup Range(digits), 0, MaxTokenLen)}
    \cup {StrV(<<"A","b","C">>), StrV(<<"A","A","A">>), StrV(<<"1","2","3">>)}

F_Exhibit_C_contract ==
    <<"E","x","h","i","b","i","t","_","C","_","c","o","n","t","r","a","c","t",".","p","d","f">>
F_Ex_7_invoice ==
    <<"E","x","."," ","7"," ","-"," ","i","n","v","o","i","c","e",".","p","d","f">>
F_randomfile ==
    <<"r","a","n","d","o","m","f","i","l","e",".","p","d","f">>

Prefixes ==
    { <<>>,
      <<"E","x","h","i","b","i","t","_">>, <<"e","x","h","i","b","i","t",".">>,
      <<"E","X","H","I","B","I","T"," ">>, <<"E","x","h","i","b","i","t">>,
      <<"E","x","h",".">>, <<"E","x","h","_">>, <<"e","x","h"," ">>,
      <<"E","x",".">>, <<"e","x"," ">>, <<"E","X","_">>, <<"E","x">> }
TailChars == {"C", "t", "7", "2", "_", " ", ".", "-"}

FilenameInputs ==
    {StrV(p \o t) : p \in Prefixes, t \in StringsOver(TailChars, 0, MaxTailLen)}
    \cup {StrV(F_Exhibit_C_contract), StrV(F_Ex_7_invoice), StrV(F_randomfile)}

OthersIdle == CombineIdle /\ AsmIdle /\ MainIdle
othersVars == <<combineVars, asmVars, mainVars>>

InitRoundTrip  == fn = "none" /\ arg \in Ordinals /\ ret = NoCall /\ OthersIdle
InitNextLabel  == fn = "none" /\ arg \in LabelInputs /\ ret = NoCall /\ OthersIdle
InitValidLabel == fn = "none" /\ arg \in TokenInputs /\ ret = NoCall /\ OthersIdle
InitInfer      == fn = "none" /\ arg \in FilenameInputs /\ ret = NoCall /\ OthersIdle

\* ordinalToLabel(n)
CallBase10ToAlphabet ==
    /\ fn = "none"
    /\ fn' = "base_10_to_alphabet"
    /\ ret' = StrV(base_10_to_alphabet(arg.n))
    /\ UNCHANGED <<arg, othersVars>>

\* labelToOrdinal of the label just made
CallBaseAlphabetTo10 ==
    /\ fn = "base_10_to_alphabet"
    /\ fn' = "base_alphabet_to_10"
    /\ ret' = IntV(base_alphabet_to_10(ret.s))
    /\ UNCHANGED <<arg, othersVars>>

CallNextLabel ==
    /\ fn = "none"
    /\ fn' = "_next_label"
    /\ ret' = next_label(arg)
    /\ UNCHANGED <<arg, othersVars>>

CallValidLabel ==
    /\ fn = "none"
    /\ fn' = "_valid_label"
    /\ ret' = BoolV(valid_label(arg.s))
    /\ UNCHANGED <<arg, othersVars>>

CallLabelFromFilename ==
    /\ fn = "none"
    /\ fn' = "label_from_filename"
    /\ ret' = label_from_filename(arg.s)
    /\ UNCHANGED <<arg, othersVars>>

NextRoundTrip == CallBase10ToAlphabet \/ CallBaseAlphabetTo10

SpecRoundTrip  == InitRoundTrip /\ [][NextRoundTrip]_vars
SpecNextLabel  == InitNextLabel /\ [][CallNextLabel]_vars
SpecValidLabel == InitValidLabel /\ [][CallValidLabel]_vars
SpecInfer      == InitInfer /\ [][CallLabelFromFilename]_vars

(***************************************************************************)
(* Claims about the label algebra.                                         *)
(***************************************************************************)
\* C1: the round trip. For every ordinal n in 1..MaxOrdinal, turning n into
\* its alphabetic label and the label back into an ordinal gives n.
C1_RoundTrip == fn = "base_alphabet_to_10" => ret = arg

\* The round trip has run on 18278, whose label is the three-letter ZZZ.
C1_Witness == fn = "base_alphabet_to_10" /\ arg = IntV(18278) /\ ret = IntV(18278)

IsUniformCase(s) ==
    /\ s # <<>>
    /\ \/ \A i \in 1..Len(s) : IsUpperChar(s[i])
       \/ \A i \in 1..Len(s) : IsLowerChar(s[i])

\* C2: the successor. A numeric label k (an int, or the digits of k) gives the
\* int k + 1. An alphabetic label s of uniform case gives the alphabetic label
\* of ordinal labelToOrdinal(s) + 1, nothing but letters, all lower case when
\* s is lower case and all upper case otherwise. Z, AZ, z and 9 give AA, BA,
\* aa and 10, and A, Z, AA, AZ, BA have the ordinals 1, 26, 27, 52, 53.
C2_Successor ==
    fn = "_next_label" =>
        /\ arg.kind = "int" => ret = IntV(arg.n + 1)
        /\ (arg.kind = "str" /\ arg.s # <<>> /\ \A i \in 1..Len(arg.s) : IsDigitChar(arg.s[i]))
              => ret = IntV(DigitsValue(arg.s) + 1)
        /\ (arg.kind = "str" /\ IsUniformCase(arg.s)) =>
              /\ ret.kind = "str"
              /\ IsUniformCase(ret.s)
              /\ base_alphabet_to_10(ret.s) = base_alphabet_to_10(arg.s) + 1
              /\ IsLowerChar(ret.s[1]) <=> IsLowerChar(arg.s[1])
        /\ arg = StrV(<<"Z">>) => ret = StrV(<<"A","A">>)
        /\ arg = StrV(<<"A","Z">>) => ret = StrV(<<"B","A">>)
        /\ arg = StrV(<<"z">>) => ret = StrV(<<"a","a">>)
        /\ arg = IntV(9) => ret = IntV(10)
        /\ arg = StrV(<<"9">>) => ret = IntV(10)
        /\ arg = StrV(<<"A">>) => base_alphabet_to_10(arg.s) = 1
        /\ arg = StrV(<<"Z">>) => base_alphabet_to_10(arg.s) = 26
        /\ arg = StrV(<<"A","A">>) => base_alphabet_to_10(arg.s) = 27
        /\ arg = StrV(<<"A","Z">>) => base_alphabet_to_10(arg.s) = 52
        /\ arg = StrV(<<"B","A">>) => base_alphabet_to_10(arg.s) = 53

\* The successor of the lower-case zz has been taken: a carry into a third
\* letter, in lower case.
C2_Witness == fn = "_next_label" /\ arg = StrV(<<"z","z">>) /\ ret = StrV(<<"a","a","a">>)

\* What the specification calls a valid label: a non-empty run of Latin
\* letters of uniform case, or a token that parses as an integer.
IsValidLabel(token) ==
    \/ IsUniformCase(token)
    \/ (token # <<>> /\ \A i \in 1..Len(token) : IsDigitChar(token[i]))

\* C3: _valid_label(token) is true exactly when the token is a non-empty run
\* of Latin letters of uniform case or parses as an integer; AbC and the empty
\* token are invalid, 12 and AA are valid.
C3_ValidLabel ==
    fn = "_valid_label" =>
        /\ ret = BoolV(IsValidLabel(arg.s))
        /\ arg.s = <<"A","b","C">> => ret = BoolV(FALSE)
        /\ arg.s = <<"1","2">> => ret = BoolV(TRUE)
        /\ arg.s = <<>> => ret = BoolV(FALSE)
        /\ arg.s = <<"A","A">> => ret = BoolV(TRUE)

(***************************************************************************)
(* Claims about filename label inference.                                  *)
(***************************************************************************)
\* The prefix markers in their priority order; ci: matched case-insensitively.
Markers ==
    << [m |-> <<"e","x","h","i","b","i","t",".">>, ci |-> TRUE],
       [m |-> <<"e","x","h","i","b","i","t","_">>, ci |-> TRUE],
       [m |-> <<"e","x","h","i","b","i","t"," ">>, ci |-> TRUE],
       [m |-> <<"e","x","h","i","b","i","t">>, ci |-> TRUE],
       [m |-> <<"E","x","h",".">>, ci |-> FALSE],
       [m |-> <<"E","x","h"," ">>, ci |-> FALSE],
       [m |-> <<"E","x","h","_">>, ci |-> FALSE],
       [m |-> <<"e","x",".">>, ci |-> TRUE],
       [m |-> <<"e","x"," ">>, ci |-> TRUE],
       [m |-> <<"e","x","_">>, ci |-> TRUE] >>

HasMarker(f, k) ==
    /\ Len(f) >= Len(Markers[k].m)
    /\ LET head == SubSeq(f, 1, Len(Markers[k].m))
       IN  IF Markers[k].ci THEN Lower(head) = Markers[k].m ELSE head = Markers[k].m

\* The filename without the first marker that matches it.
WithoutMarker(f) ==
    IF \E k \in 1..Len(Markers) : HasMarker(f, k)
    THEN LET k == CHOOSE k \in 1..Len(Markers) :
                      HasMarker(f, k) /\ \A j \in 1..(k - 1) : ~HasMarker(f, j)
         IN  SubSeq(f, Len(Markers[k].m) + 1, Len(f))
    ELSE f

\* C4: inferLabel strips the first matching prefix marker in the priority
\* order, trims the remainder, and returns the single leading letter that is
\* followed by a non-word character, or the leading digit run; with neither it
\* raises. Exhibit_C_contract.pdf gives C, "Ex. 7 - invoice.pdf" gives 7 and
\* randomfile.pdf raises.
C4_InferLabel ==
    fn = "label_from_filename" =>
        LET r == Strip(WithoutMarker(arg.s))
            letter == Len(r) >= 2 /\ IsLetterChar(r[1]) /\ ~IsWordChar(r[2])
            number == r # <<>> /\ IsDigitChar(r[1])
        IN  /\ letter => ret = StrV(<<r[1]>>)
            /\ (~letter /\ number) => ret = StrV(DigitRun(r))
            /\ (~letter /\ ~number) => ret = Raise("ValueError")
            /\ arg.s = F_Exhibit_C_contract => ret = StrV(<<"C">>)
            /\ arg.s = F_Ex_7_invoice => ret = StrV(<<"7">>)
            /\ arg.s = F_randomfile => ret = Raise("ValueError")

(***************************************************************************)
(* double-combine.py: the double-sided merge.                              *)
(*                                                                         *)
(* argv[k] is the page count of the k-th input, whose name is k; a page is *)
(* [doc, no], the no-th page of input doc, and the blank page is           *)
(* [doc |-> 0, no |-> 0].                                                  *)
(***************************************************************************)
BlankPage == [doc |-> 0, no |-> 0]
PagesOf(k, n) == [j \in 1..n |-> [doc |-> k, no |-> j]]

\* A plausible slip: the bookmark put where the output ends.
bookmark_page_end(total, n) == total

\* len(pdfWriter.pages) - len(inpdf.pages)
bookmark_page(total, n) == total - n

InitCombine ==
    /\ argv \in StringsOver(1..MaxPages, 0, MaxFiles)
    /\ input_files = <<>>
    /\ pdfWriter = NewWriter
    /\ out_file = [name |-> 0, pages |-> <<>>]
    /\ pc_c = "loop"
    /\ PureIdle /\ AsmIdle /\ MainIdle

\* One turn of the loop over sys.argv[1:]: open the input, append its pages,
\* add its bookmark, add a blank page when its page count is odd.
CombineAppend ==
    /\ pc_c = "loop"
    /\ Len(input_files) < Len(argv)
    /\ LET in_file == Len(input_files) + 1
           inpdf   == PagesOf(in_file, argv[in_file])
           pages1  == pdfWriter.pages \o inpdf
           marks1  == Append(pdfWriter.bookmarks,
                             [title |-> in_file,
                              page  |-> bookmark_page(Len(pages1), Len(inpdf))])
       IN  /\ input_files' = Append(input_files, [name |-> in_file, closed |-> FALSE])
           /\ pdfWriter' =
                  [pages     |-> IF Len(inpdf) % 2 # 0 THEN Append(pages1, BlankPage) ELSE pages1,
                   bookmarks |-> marks1]
    /\ UNCHANGED <<argv, out_file, pc_c, pureVars, asmVars, mainVars>>

\* After the loop: write combined-N-files.pdf.
CombineWrite ==
    /\ pc_c = "loop"
    /\ Len(input_files) = Len(argv)
    /\ out_file' = [name |-> Len(input_files), pages |-> pdfWriter.pages]
    /\ pc_c' = "written"
    /\ UNCHANGED <<argv, input_files, pdfWriter, pureVars, asmVars, mainVars>>

\* Close the inputs.
CombineClose ==
    /\ pc_c = "written"
    /\ input_files' = [k \in 1..Len(input_files) |-> [input_files[k] EXCEPT !.closed = TRUE]]
    /\ pc_c' = "done"
    /\ UNCHANGED <<argv, pdfWriter, out_file, pureVars, asmVars, mainVars>>

NextCombine == CombineAppend \/ CombineWrite \/ CombineClose

SpecCombine == InitCombine /\ [][NextCombine]_vars

\* The pages input j takes in the output: its own, and one more when odd.
RECURSIVE PaddedBefore(_, _)
PaddedBefore(counts, k) ==
    IF k <= 1 THEN 0
    ELSE PaddedBefore(counts, k - 1) + counts[k - 1] + (counts[k - 1] % 2)

\* C5: the layout of the double-sided merge. After each input the output has
\* an even number of pages; the bookmark of input k is at the 0-based index
\* that is the sum over j < k of p_j + p_j mod 2, and the page there is the
\* first page of input k; the written output has the sum over all j of
\* p_j + p_j mod 2 pages. Page counts 3, 4, 5 give 14 pages and bookmarks at
\* 0, 4, 8.
C5_MergeLayout ==
    pc_c # "idle" =>
        /\ Len(pdfWriter.pages) % 2 = 0
        /\ Len(pdfWriter.pages) = PaddedBefore(argv, Len(input_files) + 1)
        /\ Len(pdfWriter.bookmarks) = Len(input_files)
        /\ \A k \in 1..Len(input_files) :
              /\ pdfWriter.bookmarks[k] = [title |-> k, page |-> PaddedBefore(argv, k)]
              /\ pdfWriter.pages[PaddedBefore(argv, k) + 1] = [doc |-> k, no |-> 1]
        /\ pc_c \in {"written", "done"} =>
              /\ out_file.name = Len(argv)
              /\ Len(out_file.pages) = PaddedBefore(argv, Len(argv) + 1)
              /\ out_file.pages = pdfWriter.pages
        /\ (pc_c \in {"written", "done"} /\ argv = <<3, 4, 5>>) =>
              /\ Len(out_file.pages) = 14
              /\ [k \in 1..3 |-> pdfWriter.bookmarks[k].page] = <<0, 4, 8>>

\* Inputs of 3, 4 and 5 pages have been merged and written: 14 pages.
C5_Witness ==
    /\ pc_c = "done" /\ argv = <<3, 4, 5>>
    /\ Len(out_file.pages) = 14
    /\ out_file.pages[4] = BlankPage /\ out_file.pages[14] = BlankPage

(***************************************************************************)
(* Files and documents.                                                    *)
(*                                                                         *)
(* fs holds the files that exist: a function from paths (strings) to       *)
(* [state, pages]. A file under construction or cut short by a failure is  *)
(* "partial". A page is [origin, no, wide, rotate]: the document it was    *)
(* made in, its number there, whether its media box is wider than high,    *)
(* and its /Rotate entry.                                                  *)
(***************************************************************************)
Complete(pages) == [state |-> "complete", pages |-> pages]
Partial         == [state |-> "partial", pages |-> <<>>]
File(f, path)   == IF path \in DOMAIN f THEN f[path] ELSE Absent
Remove(f, paths) == [q \in (DOMAIN f) \ paths |-> f[q]]

S_Exhibit_ == <<"E","x","h","i","b","i","t","_">>
S_Exhibit  == <<"E","x","h","i","b","i","t"," ">>
S_pdf      == <<".","p","d","f">>
S_Ex_      == <<"E","x","_">>

\* The page generate_exhibit() builds: the designation (also the title) on a
\* letter page, upright or on its side.
SlipPage(designation, pagesize) ==
    [origin |-> designation, no |-> 0, wide |-> (pagesize = "landscape"), rotate |-> "None"]

\* generate_exhibit(filename, designation, pagesize): the file system after it.
generate_exhibit(f, filename, designation, pagesize) ==
    (filename :> Complete(<<SlipPage(designation, pagesize)>>)) @@ f

\* f"Exhibit_{label}.pdf" and f"Exhibit {label}"
exhibit_file(lbl) == S_Exhibit_ \o Format(lbl) \o S_pdf
designation_of(lbl) == S_Exhibit \o Format(lbl)

\* portrait_exhibit(label) and landscape_exhibit(label), by name.
pagesize_of(exh_fn) == IF exh_fn = "landscape_exhibit" THEN "landscape" ELSE "portrait"
run_exhibit_fn(f, exh_fn, lbl) ==
    generate_exhibit(f, exhibit_file(lbl), designation_of(lbl), pagesize_of(exh_fn))

\* cleanup(): the file system after removing every listed file that exists.
cleanup(f, cleanlist) == Remove(f, Range(cleanlist))

\* shutil.move(out, outfile): the scratch file takes the place of outfile.
move(f, out, outfile) == (outfile :> out) @@ f

\* is_portrait on a page's media box and rotation.
is_portrait(page) ==
    IF page.wide
    THEN IF page.rotate \in {"0", "180", "None"} THEN FALSE ELSE TRUE
    ELSE IF page.rotate \in {"0", "180", "None"} THEN TRUE ELSE FALSE

(***************************************************************************)
(* add_slipsheet, one file-system effect at a time.                        *)
(***************************************************************************)
P_Exhibit_A == <<"E","x","h","i","b","i","t","_","A",".","p","d","f">>
P_doc       == <<"d","o","c",".","p","d","f">>
P_out       == <<"o","u","t",".","p","d","f">>

\* A source document of n upright pages at path.
SourceDoc(path, n) ==
    Complete([j \in 1..n |-> [origin |-> path, no |-> j, wide |-> FALSE, rotate |-> "0"]])

\* The file systems add_slipsheet starts from: each of the three paths holds
\* a document or nothing.
InitialFs ==
    { [q \in present |-> SourceDoc(q, n)] :
          present \in SUBSET {P_Exhibit_A, P_doc, P_out}, n \in 1..MaxSrcPages }

InitAssembler ==
    /\ fs \in InitialFs
    /\ CLEANLIST = <<>>
    /\ scratch = Absent
    /\ asmWriter = <<>>
    /\ call = NoArgs
    /\ fs0 = fs
    /\ ncalls = 0
    /\ pc_a = "idle"
    /\ PureIdle /\ CombineIdle /\ MainIdle

asmOthers == <<pureVars, combineVars, mainVars>>

\* Lines 188-195: a fresh temporary directory, temp.pdf opened for writing.
AsmCall ==
    /\ pc_a \in {"idle", "returned", "raised_generate", "raised_read",
                 "raised_write", "raised_move"}
    /\ ncalls < MaxCalls
    /\ \E infile \in {P_Exhibit_A, P_doc}, lbl \in {StrV(<<"A">>), StrV(<<"B">>)},
          exh_fn \in {"portrait_exhibit", "landscape_exhibit"} :
         \E outfile \in {infile, P_out} :
            call' = [infile |-> infile, outfile |-> outfile, label |-> lbl, exh_fn |-> exh_fn]
    /\ fs0' = fs
    /\ scratch' = Partial
    /\ asmWriter' = <<>>
    /\ ncalls' = ncalls + 1
    /\ pc_a' = "open"
    /\ UNCHANGED <<fs, CLEANLIST, asmOthers>>

\* Line 196, exhibit_with_cleanup: the slipsheet is written to
\* Exhibit_{label}.pdf in the working directory and registered.
AsmGenerate ==
    /\ pc_a = "open"
    /\ fs' = run_exhibit_fn(fs, call.exh_fn, call.label)
    /\ CLEANLIST' = Append(CLEANLIST, exhibit_file(call.label))
    /\ pc_a' = "generated"
    /\ UNCHANGED <<scratch, asmWriter, call, fs0, ncalls, asmOthers>>

\* Line 196 when the generator raises: nothing is registered.
AsmGenerateFails ==
    /\ pc_a = "open"
    /\ pc_a' = "raised_generate"
    /\ UNCHANGED <<fs, CLEANLIST, scratch, asmWriter, call, fs0, ncalls, asmOthers>>

\* Lines 197-198: the slipsheet file is read and its pages appended.
AsmReadSlipsheet ==
    /\ pc_a = "generated"
    /\ asmWriter' = asmWriter \o File(fs, exhibit_file(call.label)).pages
    /\ pc_a' = "slip_read"
    /\ UNCHANGED <<fs, CLEANLIST, scratch, call, fs0, ncalls, asmOthers>>

\* Lines 199-200: the source is read, as it is now, and its pages appended.
AsmReadSource ==
    /\ pc_a = "slip_read"
    /\ File(fs, call.infile).state = "complete"
    /\ asmWriter' = asmWriter \o File(fs, call.infile).pages
    /\ pc_a' = "merged"
    /\ UNCHANGED <<fs, CLEANLIST, scratch, call, fs0, ncalls, asmOthers>>

\* Lines 199-200 when the source is missing or unreadable.
AsmReadSourceFails ==
    /\ pc_a = "slip_read"
    /\ File(fs, call.infile).state # "complete"
    /\ pc_a' = "raised_read"
    /\ UNCHANGED <<fs, CLEANLIST, scratch, asmWriter, call, fs0, ncalls, asmOthers>>

\* Line 201: the merged document is written to the scratch file.
AsmWrite ==
    /\ pc_a = "merged"
    /\ scratch' = Complete(asmWriter)
    /\ pc_a' = "written"
    /\ UNCHANGED <<fs, CLEANLIST, asmWriter, call, fs0, ncalls, asmOthers>>

\* Line 201 when the write fails: the scratch file stays partial.
AsmWriteFails ==
    /\ pc_a = "merged"
    /\ pc_a' = "raised_write"
    /\ UNCHANGED <<fs, CLEANLIST, scratch, asmWriter, call, fs0, ncalls, asmOthers>>

\* Line 203: the scratch file is moved onto outfile.
AsmMove ==
    /\ pc_a = "written"
    /\ fs' = move(fs, scratch, call.outfile)
    /\ scratch' = Absent
    /\ pc_a' = "moved"
    /\ UNCHANGED <<CLEANLIST, asmWriter, call, fs0, ncalls, asmOthers>>

\* Lines 202-206 when the move raises: the finally clause does nothing and
\* the exception leaves add_slipsheet; line 207 is not reached.
AsmMoveFails ==
    /\ pc_a = "written"
    /\ pc_a' = "raised_move"
    /\ UNCHANGED <<fs, CLEANLIST, scratch, asmWriter, call, fs0, ncalls, asmOthers>>

\* Line 207: cleanup().
AsmCleanup ==
    /\ pc_a = "moved"
    /\ fs' = cleanup(fs, CLEANLIST)
    /\ CLEANLIST' = <<>>
    /\ pc_a' = "returned"
    /\ UNCHANGED <<scratch, asmWriter, call, fs0, ncalls, asmOthers>>

NextAssembler ==
    \/ AsmCall
    \/ AsmGenerate \/ AsmGenerateFails
    \/ AsmReadSlipsheet
    \/ AsmReadSource \/ AsmReadSourceFails
    \/ AsmWrite \/ AsmWriteFails
    \/ AsmMove \/ AsmMoveFails
    \/ AsmCleanup

SpecAssembler == InitAssembler /\ [][NextAssembler]_vars

(***************************************************************************)
(* Claims about add_slipsheet.                                             *)
(***************************************************************************)
\* The slipsheet of the running call, then the source as it was at the call.
MergedDocument ==
    Complete(<<SlipPage(designation_of(call.label), pagesize_of(call.exh_fn))>>
             \o File(fs0, call.infile).pages)

\* C6: the Assembler never loses or mutates source content. After every call
\* on an existing source that returns, also with infile = outfile and also
\* when the source's name is that of the generated slipsheet, the file at
\* outfile is the one slipsheet page followed by all original pages of the
\* source in order, whatever outfile is; a source at a path other than
\* outfile is left unchanged.
C6_SourcePreserved ==
    (pc_a = "returned" /\ File(fs0, call.infile).state = "complete") =>
        /\ File(fs, call.outfile) = MergedDocument
        /\ call.infile # call.outfile => File(fs, call.infile) = File(fs0, call.infile)

\* C7: write-then-move. Until the move, and after a failure before or in the
\* move, outfile holds what it held when add_slipsheet was called; from the
\* move on it holds the completely written merged document. Its content
\* changes by the move alone.
C7_WriteThenMove ==
    /\ pc_a \in {"open", "generated", "slip_read", "merged", "written",
                 "raised_generate", "raised_read", "raised_write", "raised_move"}
          => File(fs, call.outfile) = File(fs0, call.outfile)
    /\ pc_a \in {"moved", "returned"}
          => File(fs, call.outfile) = Complete(asmWriter)

\* C10: guaranteed cleanup. Whenever add_slipsheet has exited, normally or by
\* a failed move, the cleanup list is empty and the registered slipsheet file
\* is no longer on disk.
C10_CleanupOnExit ==
    pc_a \in {"returned", "raised_move"} =>
        /\ CLEANLIST = <<>>
        /\ exhibit_file(call.label) \notin DOMAIN fs

(***************************************************************************)
(* main(): the exhibit tool.                                               *)
(***************************************************************************)
\* add_slipsheet run to its end: the file system and the cleanup list it
\* leaves, and whether it raised. fault names the step the environment makes
\* fail ("none": no step).
add_slipsheet(f, cleanlist, infile, outfile, lbl, exh_fn, fault) ==
    LET exh_file == exhibit_file(lbl)
        f1       == run_exhibit_fn(f, exh_fn, lbl)
        list1    == Append(cleanlist, exh_file)
        content  == File(f1, infile)
        out      == Complete(File(f1, exh_file).pages \o content.pages)
        f2       == move(f1, out, outfile)
    IN  IF fault = "generate"
        THEN [fs |-> f, CLEANLIST |-> cleanlist, raised |-> TRUE]
        ELSE IF content.state # "complete" \/ fault \in {"write", "move"}
        THEN [fs |-> f1, CLEANLIST |-> list1, raised |-> TRUE]
        ELSE [fs |-> cleanup(f2, list1), CLEANLIST |-> <<>>, raised |-> FALSE]

\* os.path.basename
RECURSIVE Basename(_)
Basename(path) ==
    IF \E i \in 1..Len(path) : path[i] = "/"
    THEN Basename(Tail(path))
    ELSE path

\* Truth of args.label: None and the empty string are false.
Truthy(v) == v.kind = "int" \/ (v.kind = "str" /\ v.s # <<>>)

\* f"Ex_{use_label}_{base}"
ex_outfile(lbl, base) == S_Ex_ \o Format(lbl) \o <<"_">> \o base

\* A plausible slip: the label is not advanced between files.
advance_stuck(lbl) == lbl

\* use_label = _next_label(use_label), label = _next_label(label)
advance(lbl) == next_label(lbl)

S_none == <<"n","o","n","e">>
P_NONE == <<"N","O","N","E">>
P_7    == <<"7",".","p","d","f">>
P_memo == <<"m","e","m","o",".","p","d","f">>
P_dB   == <<"d","/","B",".","p","d","f">>

\* A document of one page with the given media box and rotation.
OnePage(path, wide, rotate) ==
    Complete(<<[origin |-> path, no |-> 1, wide |-> wide, rotate |-> rotate]>>)

\* The working directory of the run: four documents; no file is called NONE.
MainFs ==
    (P_Exhibit_A :> OnePage(P_Exhibit_A, TRUE, "90"))
    @@ (P_7 :> OnePage(P_7, FALSE, "0"))
    @@ (P_memo :> OnePage(P_memo, TRUE, "0"))
    @@ (P_dB :> OnePage(P_dB, FALSE, "270"))

LabelArgs ==
    {None} \cup {StrV(s) : s \in {<<>>, <<"A">>, <<"Z">>, <<"z">>, <<"9">>,
                                  <<"A","A">>, <<"z","A">>}}

CmdLines ==
    [label : LabelArgs,
     orientation : {"none", "landscape", "portrait"},
     count : 0..MaxCount,
     infile : StringsOver({P_Exhibit_A, P_7, P_memo, P_dB, P_NONE}, 1, MaxInfiles)]

InitMain ==
    /\ args \in CmdLines
    /\ label = None /\ use_label = None /\ idx = 0
    /\ calls = <<>> /\ exit_status = "none" /\ pc_m = "start"
    /\ fs = MainFs /\ fs0 = MainFs /\ CLEANLIST = <<>>
    /\ scratch = Absent /\ asmWriter = <<>> /\ call = NoArgs /\ ncalls = 0 /\ pc_a = "idle"
    /\ PureIdle /\ CombineIdle

mainOthers == <<pureVars, combineVars, scratch, asmWriter, call, fs0, ncalls, pc_a>>

\* Lines 272-278: the label is validated when one is given, then the mode is
\* chosen by the first infile.
MainValidate ==
    /\ pc_m = "start"
    /\ label' = args.label
    /\ use_label' = args.label
    /\ IF Truthy(args.label) /\ ~valid_label(args.label.s)
       THEN exit_status' = "usage_error" /\ pc_m' = "exited"
       ELSE /\ exit_status' = "none"
            /\ pc_m' = IF Lower(args.infile[1]) = S_none THEN "none_loop" ELSE "file_loop"
    /\ UNCHANGED <<args, idx, calls, fs, CLEANLIST, mainOthers>>

\* Lines 283-285, one turn: a slipsheet for the label, then the next label.
MainGenerate ==
    /\ pc_m = "none_loop"
    /\ idx < args.count
    /\ LET exhibit_fn == IF args.orientation = "landscape"
                         THEN "landscape_exhibit" ELSE "portrait_exhibit"
           nxt == advance(label)
       IN  /\ fs' = run_exhibit_fn(fs, exhibit_fn, label)
           /\ calls' = Append(calls, [op |-> "exhibit_fn", infile |-> <<>>, outfile |-> <<>>,
                                      label |-> label, exh_fn |-> exhibit_fn, raised |-> FALSE])
           /\ IF IsRaise(nxt)
              THEN exit_status' = nxt.kind /\ pc_m' = "exited" /\ UNCHANGED <<label, idx>>
              ELSE label' = nxt /\ idx' = idx + 1 /\ UNCHANGED <<exit_status, pc_m>>
    /\ UNCHANGED <<args, use_label, CLEANLIST, mainOthers>>

\* One turn of lines 289-307: the orientation, the label and the output name
\* of the file, add_slipsheet, then the next label.
MainAddSlipsheet ==
    /\ pc_m = "file_loop"
    /\ idx < Len(args.infile)
    /\ \E fault \in {"none", "generate", "write", "move"} :
         LET inf  == args.infile[idx + 1]
             base == Basename(inf)
             readable == File(fs, inf).state = "complete"
             exhibit_fn ==
                 IF args.orientation = "landscape" THEN "landscape_exhibit"
                 ELSE IF args.orientation = "portrait" THEN "portrait_exhibit"
                 ELSE IF is_portrait(File(fs, inf).pages[1]) THEN "portrait_exhibit"
                 ELSE "landscape_exhibit"
             lbl     == IF ~Truthy(label) THEN label_from_filename(base) ELSE use_label
             outfile == IF ~Truthy(label) THEN inf ELSE ex_outfile(use_label, base)
             r       == add_slipsheet(fs, CLEANLIST, inf, outfile, lbl, exhibit_fn, fault)
         IN  IF args.orientation = "none" /\ ~readable
             THEN \* is_portrait raises
                  /\ exit_status' = "IOError" /\ pc_m' = "exited"
                  /\ UNCHANGED <<use_label, idx, calls, fs, CLEANLIST>>
             ELSE IF IsRaise(lbl)
             THEN \* label_from_filename raises
                  /\ exit_status' = lbl.kind /\ pc_m' = "exited"
                  /\ UNCHANGED <<use_label, idx, calls, fs, CLEANLIST>>
             ELSE /\ calls' = Append(calls, [op |-> "add_slipsheet", infile |-> inf,
                                             outfile |-> outfile, label |-> lbl,
                                             exh_fn |-> exhibit_fn, raised |-> r.raised])
                  /\ fs' = r.fs
                  /\ CLEANLIST' = r.CLEANLIST
                  /\ IF r.raised
                     THEN exit_status' = "IOError" /\ pc_m' = "exited" /\ UNCHANGED <<use_label, idx>>
                     ELSE use_label' = advance(lbl) /\ idx' = idx + 1
                          /\ UNCHANGED <<exit_status, pc_m>>
    /\ UNCHANGED <<args, label, mainOthers>>

\* Either loop has run out: main returns.
MainReturn ==
    /\ \/ pc_m = "none_loop" /\ idx >= args.count
       \/ pc_m = "file_loop" /\ idx >= Len(args.infile)
    /\ exit_status' = "ok"
    /\ pc_m' = "exited"
    /\ UNCHANGED <<args, label, use_label, idx, calls, fs, CLEANLIST, mainOthers>>

NextMain == MainValidate \/ MainGenerate \/ MainAddSlipsheet \/ MainReturn

SpecMain == InitMain /\ [][NextMain]_vars

(***************************************************************************)
(* Claims about main().                                                    *)
(***************************************************************************)
\* C8: eager validation. When the explicit label fails the validation, or the
\* input is NONE and no label is given, the tool has exited with a usage error
\* and has generated, read or written no document: no slipsheet was made and
\* the files are as they were.
C8_EagerValidation ==
    (/\ pc_m = "exited"
     /\ \/ Truthy(args.label) /\ ~valid_label(args.label.s)
        \/ Lower(args.infile[1]) = S_none /\ args.label = None)
    => (exit_status = "usage_error" /\ calls = <<>> /\ fs = fs0)

\* The k-fold successor of a label.
RECURSIVE Successor(_, _)
Successor(lbl, k) == IF k = 0 THEN lbl ELSE next_label(Successor(lbl, k - 1))

====
